---- MODULE Spec2Model ----
(***************************************************************************)
(* Model of zimg_helper.hpp (src/unnamed/part_000) and of the pybind11     *)
(* wrapper in src/source/main.cpp: the aligned allocator, bitblt, the      *)
(* ImagePlane / Image buffer classes, the ZFilter constructors and the     *)
(* host-facing conversion call ZFilterPy::__call__.                        *)
(*                                                                         *)
(* Memory is a sequence of blocks; a pointer is a (block, offset) pair, so *)
(* that uint8_t* arithmetic is offset arithmetic and an access outside a   *)
(* block, or through the null pointer, is visible as a fault.              *)
(***************************************************************************)
EXTENDS Integers, Sequences, FiniteSets, TLC

VARIABLES
    mem,        \* the blocks of memory: heap blocks and caller-owned buffers
    brk,        \* the platform allocator's next free address
    fault,      \* "none", or the undefined behaviour the last operation ran into
    pc,         \* position of the driving caller
    sizeofT,    \* sizeof(T) of the ImagePlane<T> instantiation in use
    planes,     \* the ImagePlane objects alive, by name
    ext,        \* the caller's external buffer: the pointer and stride last passed to to()
    blt,        \* the arguments and the memory before the last bitblt call
    bufs,       \* lifetimes: every buffer handed out, with the aligned_free calls made on it
    ctrl,       \* lifetimes: the control blocks of the shared_ptr handles (Tptr)
    handle,     \* lifetimes: the handle each ImagePlane object holds
    images,     \* lifetimes: the Image objects, each with its plane count and three handles
    attempt,    \* lifetimes: the last Image construction tried, and how it ended
    zfilter,    \* the ZFilter instance: its formats and its temporary buffer
    roi,        \* the region-of-interest arguments its constructor was given
    call,       \* __call__: its position, the error it threw, and what it has done so far
    src_arr,    \* __call__: the tensor passed in (src_buf)
    dst_arr,    \* __call__: the tensor returned (dst_buf)
    scratch,    \* __call__: the two scratch Planes, src_image and dst_image
    engine,     \* the process calls the engine has received, with their descriptors
    filters,    \* threads: the ZFilter instances the threads of a program use
    threads,    \* threads: each thread's position in ZFilter::operator()
    guard       \* threads: how the program uses its instances, and who holds its lock

planeVars == <<mem, brk, fault, pc, sizeofT, planes, ext, blt>>
lifeVars == <<bufs, ctrl, handle, images, attempt>>
filterVars == <<zfilter, roi>>
callVars == <<call, src_arr, dst_arr, scratch, engine>>
threadVars == <<filters, threads, guard>>
vars == <<planeVars, lifeVars, filterVars, callVars, threadVars>>
\* what the caller of ImagePlane leaves alone, what the lifetimes leave alone, what
\* the construction of a filter leaves alone, and what a conversion call leaves alone
notPlane == <<lifeVars, filterVars, callVars, threadVars>>
notLife == <<planeVars, filterVars, callVars, threadVars>>
notFilter == <<fault, pc, sizeofT, planes, ext, blt, lifeVars, callVars, threadVars>>
notCall == <<pc, planes, ext, blt, lifeVars, roi, threadVars>>
notThread == <<mem, brk, fault, pc, sizeofT, planes, ext, blt, lifeVars, filterVars, callVars>>

----------------------------------------------------------------------------
(* Program constants and bounds of the model *)

ALIGNMENT == 32
MAX_PLANES == 3

MaxWidth == 9       \* plane widths 0..MaxWidth (9 floats cross one alignment unit)
MaxHeight == 2      \* plane heights 0..MaxHeight
MaxDim == 2         \* image widths and heights 1..MaxDim a filter is built for
MaxRoi == 1         \* region-of-interest origins 0..MaxRoi, sizes -MaxRoi..MaxRoi + 1
MaxSlots == 2       \* ImagePlane objects a caller holds at once
MaxCtrl == 2        \* handles created over a run
Pad == 1            \* how far a caller's stride exceeds or falls short of the row size
HeapStart == 8      \* first address the platform allocator hands out, and the gap it leaves between blocks

ElemSizes == {1, 2, 4}      \* uint8_t, uint16_t, float: the instantiations main.cpp binds
Indeterminate == 0 - 1      \* content of a byte that was never written

----------------------------------------------------------------------------
(* Memory *)

NULL == [blk |-> 0, off |-> 0]
Ptr(b, o) == [blk |-> b, off |-> o]
PtrAdd(p, n) == [p EXCEPT !.off = @ + n]

Abs(x) == IF x < 0 THEN -x ELSE x

\* the machine address a pointer holds
Address(m, p) == IF p.blk = 0 THEN p.off ELSE m[p.blk].base + p.off

\* n bytes at p lie inside one live block
InBounds(m, p, n) ==
    /\ p.blk \in DOMAIN m
    /\ m[p.blk].live
    /\ p.off >= 0
    /\ p.off + n <= m[p.blk].size

Read(m, p) == m[p.blk].bytes[p.off]

\* a caller's buffer: its bytes are all distinct, so a copied byte names its origin
Tag(b, o) == 1000 * b + o

CallerBlock(b, size, filled) ==
    [size |-> size, base |-> 0, live |-> TRUE, owner |-> "caller",
     bytes |-> [o \in 0 .. size - 1 |-> IF filled THEN Tag(b, o) ELSE Indeterminate]]

\* memcpy(dst, src, n)
MemcpyFault(m, dst, src, n) ==
    IF n = 0 THEN "none"
    ELSE IF dst.blk = 0 \/ src.blk = 0 THEN "null"
    ELSE IF ~InBounds(m, dst, n) \/ ~InBounds(m, src, n) THEN "oob"
    ELSE IF dst.blk = src.blk /\ dst.off < src.off + n /\ src.off < dst.off + n THEN "overlap"
    ELSE "none"

Memcpy(m, dst, src, n) ==
    LET f == MemcpyFault(m, dst, src, n) IN
    IF f # "none" \/ n = 0 THEN [mem |-> m, fault |-> f]
    ELSE [mem |-> [m EXCEPT ![dst.blk].bytes =
                      [o \in DOMAIN @ |->
                          IF o >= dst.off /\ o < dst.off + n
                          THEN Read(m, PtrAdd(src, o - dst.off))
                          ELSE @[o]]],
          fault |-> "none"]

----------------------------------------------------------------------------
(* aligned_malloc / aligned_free *)

RoundUp(x, a) == ((x + a - 1) \div a) * a

\* posix_memalign: a fresh block of size bytes at a multiple of alignment
PosixMemalign(m, b, size, alignment) ==
    Append(m, [size |-> size, base |-> RoundUp(b, alignment), live |-> TRUE, owner |-> "heap",
               bytes |-> [o \in 0 .. size - 1 |-> Indeterminate]])

\* What the platform allocator can answer to a request of size bytes. A negative
\* size stands for the value it converts to as a size_t, at least 2^63, which no
\* allocator satisfies.
AllocOutcomes(size) == IF size < 0 THEN {FALSE} ELSE {FALSE, TRUE}

\* aligned_malloc(size, alignment): the new memory, allocator state and the pointer,
\* null when posix_memalign failed
aligned_malloc(m, b, size, alignment, ok) ==
    IF ok
    THEN [mem |-> PosixMemalign(m, b, size, alignment),
          brk |-> RoundUp(b, alignment) + size + HeapStart,
          ptr |-> Ptr(Len(m) + 1, 0)]
    ELSE [mem |-> m, brk |-> b, ptr |-> NULL]

----------------------------------------------------------------------------
(* bitblt *)

RECURSIVE BitbltRows(_, _, _, _, _, _, _)
BitbltRows(m, dstp8, dst_stride, srcp8, src_stride, row_size, left) ==
    IF left = 0 THEN [mem |-> m, fault |-> "none"]
    ELSE LET c == Memcpy(m, dstp8, srcp8, row_size) IN
         IF c.fault # "none" THEN c
         ELSE BitbltRows(c.mem, PtrAdd(dstp8, dst_stride), dst_stride,
                         PtrAdd(srcp8, src_stride), src_stride, row_size, left - 1)

\* a bulk copy that forgets the row count
BitbltFast_OneRow(m, dstp, srcp, row_size, height) == Memcpy(m, dstp, srcp, row_size)

BitbltFast(m, dstp, srcp, row_size, height) == Memcpy(m, dstp, srcp, row_size * height)

bitblt(m, dstp, dst_stride, srcp, src_stride, row_size, height) ==
    IF height = 0 THEN [mem |-> m, fault |-> "none"]
    ELSE IF src_stride = dst_stride /\ src_stride = row_size
         THEN BitbltFast(m, dstp, srcp, row_size, height)
         ELSE BitbltRows(m, dstp, dst_stride, srcp, src_stride, row_size, height)

BltCall(m, dstp, dst_stride, srcp, src_stride, row_size, height) ==
    [dst |-> dstp, dst_stride |-> dst_stride, src |-> srcp, src_stride |-> src_stride,
     row_size |-> row_size, height |-> height, before |-> m]

NoBlt == BltCall(<<>>, NULL, 0, NULL, 0, 0, 0)

----------------------------------------------------------------------------
(* ImagePlane<T> *)

\* ImagePlane(): the default constructor
DefaultPlane == [width |-> 0, height |-> 0, stride |-> 0, data |-> NULL, mode |-> "default"]

\* a stride that rounds up from one byte too many
cal_stride_OffByOne(width, T, alignment) == ((width * T + alignment) \div alignment) * alignment

cal_stride(width, T, alignment) == ((width * T + alignment - 1) \div alignment) * alignment

\* ImagePlane::allocate(size): a shared handle over aligned_malloc's answer, never checked
allocate(m, b, size, alignment, ok) == aligned_malloc(m, b, size, alignment, ok)

\* ImagePlane(width, height): allocate and own
PlaneNew(m, b, width, height, T, ok) ==
    LET a == allocate(m, b, cal_stride(width, T, ALIGNMENT) * height, ALIGNMENT, ok) IN
    [mem |-> a.mem, brk |-> a.brk,
     plane |-> [width |-> width, height |-> height, stride |-> cal_stride(width, T, ALIGNMENT),
                data |-> a.ptr, mode |-> "own"]]

\* ImagePlane(width, height, stride, void *data): a borrowed view
PlaneWrap(width, height, stride, data) ==
    [width |-> width, height |-> height, stride |-> stride, data |-> data, mode |-> "borrowed"]

\* ImagePlane(width, height, stride, const Tptr &data): shares the caller's handle
PlaneShared(width, height, stride, data) ==
    [width |-> width, height |-> height, stride |-> stride, data |-> data, mode |-> "shared"]

RowSize(p, T) == p.width * T

\* a from() that takes the width for the row size in bytes
PlaneFrom_WidthAsRowSize(m, p, T, stride, data) ==
    bitblt(m, p.data, p.stride, data, stride, p.width, p.height)

\* from(stride, data)
PlaneFrom(m, p, T, stride, data) ==
    bitblt(m, p.data, p.stride, data, stride, RowSize(p, T), p.height)

\* to(stride, data)
PlaneTo(m, p, T, stride, data) ==
    bitblt(m, data, stride, p.data, p.stride, RowSize(p, T), p.height)

\* copy(): the allocation, the copy into it, and the Plane returned
PlaneCopy(m, b, p, T, ok) ==
    LET a == allocate(m, b, p.stride * p.height, ALIGNMENT, ok)
        c == bitblt(a.mem, a.ptr, p.stride, p.data, p.stride, RowSize(p, T), p.height)
    IN  [mem |-> c.mem, brk |-> a.brk, fault |-> c.fault, before |-> a.mem,
         plane |-> PlaneShared(p.width, p.height, p.stride, a.ptr)]

\* isAligned(alignment)
isAligned(m, p, alignment) ==
    Address(m, p.data) % alignment = 0 /\ p.stride % alignment = 0

----------------------------------------------------------------------------
(* A caller of ImagePlane: it builds a Plane A, fills it, then either exports *)
(* it to an external buffer and imports that into a Plane B of the same size, *)
(* or clones it and writes through one of the two.                            *)

PlaneNames == {"A", "B", "C"}
Marker == 0 - 2             \* the byte a caller writes through getData()

\* the bytes a caller's buffer needs for height rows of row_size bytes at this stride,
\* and where its first row starts
Extent(stride, row_size, height) == IF height = 0 THEN 0 ELSE Abs(stride) * (height - 1) + row_size
Origin(stride, height) == IF stride < 0 /\ height > 0 THEN (-stride) * (height - 1) ELSE 0

\* the strides a caller tries around a row size: bottom-up, packed, padded, short, zero
Strides(row_size) == {-(row_size + Pad), -row_size, 0, row_size - Pad, row_size, row_size + Pad}

CanBuild(n, w, h) ==
    IF n = "A" THEN pc = "start"
    ELSE n = "B" /\ pc = "exported" /\ w = planes["A"].width /\ h = planes["A"].height

Built(n) == IF n = "A" THEN "built" ELSE "haveB"

After(f, next) == IF f = "none" THEN next ELSE "ub"

\* ImagePlane<T> n(w, h)
New(n, w, h, ok) ==
    /\ CanBuild(n, w, h)
    /\ ok \in AllocOutcomes(cal_stride(w, sizeofT, ALIGNMENT) * h)
    /\ LET r == PlaneNew(mem, brk, w, h, sizeofT, ok) IN
        /\ mem' = r.mem
        /\ brk' = r.brk
        /\ planes' = [planes EXCEPT ![n] = r.plane]
    /\ pc' = Built(n)
    /\ UNCHANGED <<fault, sizeofT, ext, blt, notPlane>>

\* ImagePlane<T> n(w, h, stride, data) over a buffer of the caller's
Wrap(n, w, h, stride) ==
    /\ CanBuild(n, w, h)
    /\ mem' = Append(mem, CallerBlock(Len(mem) + 1, Extent(stride, w * sizeofT, h), n = "A"))
    /\ planes' = [planes EXCEPT ![n] =
                    PlaneWrap(w, h, stride, Ptr(Len(mem) + 1, Origin(stride, h)))]
    /\ pc' = IF n = "A" THEN "filled" ELSE Built(n)
    /\ UNCHANGED <<brk, fault, sizeofT, ext, blt, notPlane>>

\* A.from(stride, data) with the caller's source rows, as main() does
Fill(stride) ==
    /\ pc = "built"
    /\ LET p == planes["A"]
           m1 == Append(mem, CallerBlock(Len(mem) + 1, Extent(stride, RowSize(p, sizeofT), p.height), TRUE))
           src == Ptr(Len(mem) + 1, Origin(stride, p.height))
           r == PlaneFrom(m1, p, sizeofT, stride, src)
       IN /\ mem' = r.mem
          /\ fault' = r.fault
          /\ pc' = After(r.fault, "filled")
          /\ blt' = BltCall(m1, p.data, p.stride, src, stride, RowSize(p, sizeofT), p.height)
    /\ UNCHANGED <<brk, sizeofT, planes, ext, notPlane>>

\* A.to(stride, data) into an external buffer of the caller's
Export(stride) ==
    /\ pc \in {"built", "filled"}
    /\ LET p == planes["A"]
           m1 == Append(mem, CallerBlock(Len(mem) + 1, Extent(stride, RowSize(p, sizeofT), p.height), FALSE))
           dst == Ptr(Len(mem) + 1, Origin(stride, p.height))
           r == PlaneTo(m1, p, sizeofT, stride, dst)
       IN /\ mem' = r.mem
          /\ fault' = r.fault
          /\ pc' = After(r.fault, "exported")
          /\ ext' = [ptr |-> dst, stride |-> stride]
          /\ blt' = BltCall(m1, dst, stride, p.data, p.stride, RowSize(p, sizeofT), p.height)
    /\ UNCHANGED <<brk, sizeofT, planes, notPlane>>

\* B.from(stride, data) from that external buffer, with the stride it was written at
Import ==
    /\ pc = "haveB"
    /\ LET p == planes["B"]
           r == PlaneFrom(mem, p, sizeofT, ext.stride, ext.ptr)
       IN /\ mem' = r.mem
          /\ fault' = r.fault
          /\ pc' = After(r.fault, "imported")
          /\ blt' = BltCall(mem, p.data, p.stride, ext.ptr, ext.stride, RowSize(p, sizeofT), p.height)
    /\ UNCHANGED <<brk, sizeofT, planes, ext, notPlane>>

\* C = A.copy()
Copy(ok) ==
    /\ pc \in {"built", "filled"}
    /\ ok \in AllocOutcomes(planes["A"].stride * planes["A"].height)
    /\ LET p == planes["A"]
           r == PlaneCopy(mem, brk, p, sizeofT, ok)
       IN /\ mem' = r.mem
          /\ brk' = r.brk
          /\ fault' = r.fault
          /\ planes' = [planes EXCEPT !["C"] = r.plane]
          /\ pc' = After(r.fault, "copied")
          /\ blt' = BltCall(r.before, r.plane.data, p.stride, p.data, p.stride, RowSize(p, sizeofT), p.height)
    /\ UNCHANGED <<sizeofT, ext, notPlane>>

\* *(getData() + row * stride + byte) = Marker through Plane n
Write(n, row, byte) ==
    /\ pc = "copied"
    /\ n \in {"A", "C"}
    /\ row >= 0 /\ row < planes[n].height
    /\ byte >= 0 /\ byte < RowSize(planes[n], sizeofT)
    /\ LET at == PtrAdd(planes[n].data, row * planes[n].stride + byte)
           f == IF at.blk = 0 THEN "null" ELSE IF ~InBounds(mem, at, 1) THEN "oob" ELSE "none"
       IN /\ fault' = f
          /\ mem' = IF f = "none" THEN [mem EXCEPT ![at.blk].bytes[at.off] = Marker] ELSE mem
          /\ pc' = After(f, IF n = "A" THEN "wroteA" ELSE "wroteC")
    /\ UNCHANGED <<brk, sizeofT, planes, ext, blt, notPlane>>

FilterIdle ==
    /\ zfilter = <<>>
    /\ roi = <<>>

CallIdle ==
    /\ call = <<>>
    /\ src_arr = <<>>
    /\ dst_arr = <<>>
    /\ scratch = <<>>
    /\ engine = <<>>

ThreadIdle ==
    /\ filters = <<>>
    /\ threads = <<>>
    /\ guard = <<>>

LifeIdle ==
    /\ bufs = <<>>
    /\ ctrl = <<>>
    /\ handle = <<>>
    /\ images = <<>>
    /\ attempt = <<>>

Init ==
    /\ mem = <<>>
    /\ brk = HeapStart
    /\ fault = "none"
    /\ pc = "start"
    /\ sizeofT \in ElemSizes
    /\ planes = [n \in PlaneNames |-> DefaultPlane]
    /\ ext = [ptr |-> NULL, stride |-> 0]
    /\ blt = NoBlt
    /\ LifeIdle
    /\ FilterIdle
    /\ CallIdle
    /\ ThreadIdle

Next ==
    \/ \E n \in {"A", "B"}, w \in 0 .. MaxWidth, h \in 0 .. MaxHeight, ok \in BOOLEAN :
          New(n, w, h, ok)
    \/ \E n \in {"A", "B"}, w \in 0 .. MaxWidth, h \in 0 .. MaxHeight :
          \E stride \in Strides(w * sizeofT) : Wrap(n, w, h, stride)
    \/ \E stride \in {RowSize(planes["A"], sizeofT), RowSize(planes["A"], sizeofT) + Pad} : Fill(stride)
    \/ \E stride \in Strides(RowSize(planes["A"], sizeofT)) : Export(stride)
    \/ Import
    \/ \E ok \in BOOLEAN : Copy(ok)
    \/ \E n \in {"A", "C"} :
          \E row \in {0, planes[n].height - 1}, byte \in {0, RowSize(planes[n], sizeofT) - 1} :
             Write(n, row, byte)

Spec == Init /\ [][Next]_vars

----------------------------------------------------------------------------
(* Claims about ImagePlane and bitblt, checked under Spec *)

\* the height rows of width * sizeof(T) bytes a Plane shows
Rows(m, p) ==
    [r \in 0 .. p.height - 1 |->
        [b \in 0 .. RowSize(p, sizeofT) - 1 |-> Read(m, PtrAdd(p.data, r * p.stride + b))]]

\* every byte of every row of p lies inside the live block its data points into
RowsInside(m, p) ==
    \A r \in 0 .. p.height - 1 :
        RowSize(p, sizeofT) > 0 => InBounds(m, PtrAdd(p.data, r * p.stride), RowSize(p, sizeofT))

\* C2: a Plane built by the allocate-and-own constructor has its data address and its
\* stride at multiples of ALIGNMENT, its stride is the smallest such multiple that
\* holds width * sizeof(T) bytes, and the block it was given is stride * height bytes.
C2_OwnPlaneAligned ==
    \A n \in PlaneNames :
        planes[n].mode = "own" =>
            LET p == planes[n] IN
            /\ Address(mem, p.data) % ALIGNMENT = 0
            /\ p.stride % ALIGNMENT = 0
            /\ p.stride >= p.width * sizeofT
            /\ p.stride - ALIGNMENT < p.width * sizeofT
            /\ p.data # NULL =>
                  /\ p.data.off = 0
                  /\ mem[p.data.blk].owner = "heap"
                  /\ mem[p.data.blk].size = p.stride * p.height

C2_Witness ==
    /\ planes["A"].mode = "own"
    /\ planes["A"].data # NULL
    /\ planes["A"].width * sizeofT > ALIGNMENT
    /\ planes["A"].height = 2
    /\ mem[planes["A"].data.blk].base > 0

JustBlitted == pc \in {"filled", "exported", "imported", "copied"} /\ blt # NoBlt

\* C3: when src_stride = dst_stride = row_size, bitblt's single bulk copy leaves at
\* dst + r * dst_stride + b the byte that was at src + r * src_stride + b, for every
\* row r < height and byte b < row_size, and changes no other byte of memory (none
\* at all when height is 0).
C3_FastPathIsRowCopy ==
    (JustBlitted /\ blt.src_stride = blt.dst_stride /\ blt.src_stride = blt.row_size) =>
        /\ \A r \in 0 .. blt.height - 1, b \in 0 .. blt.row_size - 1 :
              Read(mem, PtrAdd(blt.dst, r * blt.dst_stride + b))
                 = Read(blt.before, PtrAdd(blt.src, r * blt.src_stride + b))
        /\ DOMAIN mem = DOMAIN blt.before
        /\ \A k \in DOMAIN mem : \A o \in 0 .. mem[k].size - 1 :
              (k # blt.dst.blk \/ o < blt.dst.off \/ o >= blt.dst.off + blt.row_size * blt.height)
                 => mem[k].bytes[o] = blt.before[k].bytes[o]

C3_Witness ==
    /\ JustBlitted
    /\ blt.src_stride = blt.dst_stride /\ blt.src_stride = blt.row_size
    /\ blt.row_size > 1
    /\ blt.height = 2
    /\ Read(mem, PtrAdd(blt.dst, blt.dst_stride)) = Read(blt.before, PtrAdd(blt.src, blt.src_stride))
    /\ Read(mem, PtrAdd(blt.dst, blt.dst_stride)) # Indeterminate

\* C4 as claimed: for every pair of strides, A.to(s, buf) followed by B.from(s, buf)
\* into a Plane B of A's width and height leaves B's rows equal to A's rows.
C4_RoundTripAnyStride ==
    pc = "imported" => Rows(mem, planes["B"]) = Rows(mem, planes["A"])

\* C4 as amended: the same, for an external stride and a stride of B that are each, in
\* magnitude, at least the row size width * sizeof(T); negative strides included.
C4_RoundTrip ==
    (/\ pc = "imported"
     /\ Abs(ext.stride) >= RowSize(planes["A"], sizeofT)
     /\ Abs(planes["B"].stride) >= RowSize(planes["A"], sizeofT))
        => Rows(mem, planes["B"]) = Rows(mem, planes["A"])

C4_Witness ==
    /\ pc = "imported"
    /\ ext.stride < 0
    /\ Abs(ext.stride) >= RowSize(planes["A"], sizeofT)
    /\ planes["B"].stride > RowSize(planes["A"], sizeofT)
    /\ planes["A"].height = 2
    /\ planes["A"].width > 0
    /\ Rows(mem, planes["B"]) = Rows(mem, planes["A"])
    /\ Rows(mem, planes["A"])[0][0] # Rows(mem, planes["A"])[1][0]

CopyActed == planes["C"].mode # "default"

\* the original has storage, and the allocator refused copy() nothing it could have given
CopyNotExhausted ==
    /\ planes["A"].data # NULL
    /\ ~(planes["C"].data = NULL /\ planes["A"].stride * planes["A"].height >= 0)

\* C5: for a Plane of any ownership mode and any stride, copy() returns a Plane of the
\* same width, height and stride whose storage is a fresh aligned heap block, apart from
\* the original's, that holds all its rows, with the original's bytes in them; a later
\* write through one of the two changes no byte of the other.
C5_CopyIsDeepClone ==
    (CopyActed /\ CopyNotExhausted) =>
        LET a == planes["A"]
            c == planes["C"]
        IN  /\ fault = "none"
            /\ c.width = a.width /\ c.height = a.height /\ c.stride = a.stride
            /\ c.data # NULL
            /\ c.data.blk # a.data.blk
            /\ mem[c.data.blk].owner = "heap"
            /\ Address(mem, c.data) % ALIGNMENT = 0
            /\ RowsInside(mem, c)
            /\ pc = "copied" => Rows(mem, c) = Rows(mem, a)
            /\ pc = "wroteC" => \A r \in DOMAIN Rows(mem, a) : \A b \in DOMAIN Rows(mem, a)[r] :
                                    Rows(mem, a)[r][b] # Marker
            /\ pc = "wroteA" => \A r \in DOMAIN Rows(mem, c) : \A b \in DOMAIN Rows(mem, c)[r] :
                                    Rows(mem, c)[r][b] # Marker

\* C10: no byte is read or written through a null handle: a Plane whose allocation
\* failed is never used by from, to or copy.
C10_NullHandleNeverUsed == fault # "null"

----------------------------------------------------------------------------
(* Lifetimes: the shared_ptr handle (Tptr) of each ImagePlane, the buffers    *)
(* behind the handles, and Image, which stores copies of the Planes given.    *)
(* A handle is the index of its control block in ctrl, 0 the empty handle of  *)
(* a default-constructed Plane; "dead" marks an object that does not exist.   *)

Slots == 1 .. MaxSlots
ImageSlots == {1}
Dead == 0 - 1
NoImage == [alive |-> FALSE, num_planes |-> 0, planes |-> [k \in 1 .. MAX_PLANES |-> 0]]

\* the deleter the borrowed-view constructor gives its handle: [](void *ptr) {}
WrapDeleter_Aligned == "AlignedDeleter"

WrapDeleter == "noop"

\* the number of Plane arguments Image has a constructor for
ImageCtorExists_UpToMax(n) == n <= MAX_PLANES

ImageCtorExists(n) == n \in {0, 1, 3}

\* a new handle over ptr (0: null) with this deleter, use count 1
NewHandle(c, ptr, deleter) == Append(c, [ptr |-> ptr, deleter |-> deleter, use_count |-> 1])

\* copying a handle
Acquire(c, h) == IF h = 0 THEN c ELSE [c EXCEPT ![h].use_count = @ + 1]

\* AlignedDeleter::operator() / aligned_free(ptr); free(NULL) does nothing
aligned_free(b, ptr) == IF ptr = 0 THEN b ELSE [b EXCEPT ![ptr].frees = @ + 1]

RunDeleter(b, c, h) ==
    IF c[h].deleter = "AlignedDeleter" THEN aligned_free(b, c[h].ptr) ELSE b

\* dropping a handle: the deleter runs when the use count reaches zero
Release(b, c, h) ==
    IF h = 0 THEN [bufs |-> b, ctrl |-> c]
    ELSE [bufs |-> IF c[h].use_count = 1 THEN RunDeleter(b, c, h) ELSE b,
          ctrl |-> [c EXCEPT ![h].use_count = @ - 1]]

RECURSIVE ReleaseAll(_, _, _)
ReleaseAll(b, c, hs) ==
    IF hs = <<>> THEN [bufs |-> b, ctrl |-> c]
    ELSE LET r == Release(b, c, Head(hs)) IN ReleaseAll(r.bufs, r.ctrl, Tail(hs))

RECURSIVE AcquireAll(_, _)
AcquireAll(c, hs) == IF hs = <<>> THEN c ELSE AcquireAll(Acquire(c, Head(hs)), Tail(hs))

\* ImagePlane<T> s(width, height): allocate() wraps whatever aligned_malloc returned
LifeNew(s, ok) ==
    /\ handle[s] = Dead
    /\ Len(ctrl) < MaxCtrl
    /\ bufs' = IF ok THEN Append(bufs, [kind |-> "heap", frees |-> 0]) ELSE bufs
    /\ ctrl' = NewHandle(ctrl, IF ok THEN Len(bufs) + 1 ELSE 0, "AlignedDeleter")
    /\ handle' = [handle EXCEPT ![s] = Len(ctrl) + 1]
    /\ UNCHANGED <<images, attempt, notLife>>

\* ImagePlane<T> s(width, height, stride, data) over a buffer of the caller's
LifeWrap(s) ==
    /\ handle[s] = Dead
    /\ Len(ctrl) < MaxCtrl
    /\ bufs' = Append(bufs, [kind |-> "caller", frees |-> 0])
    /\ ctrl' = NewHandle(ctrl, Len(bufs) + 1, WrapDeleter)
    /\ handle' = [handle EXCEPT ![s] = Len(ctrl) + 1]
    /\ UNCHANGED <<images, attempt, notLife>>

\* ImagePlane<T> s(width, height, stride, t.getPtr()), or s copy-constructed from t
LifeShare(s, t) ==
    /\ handle[s] = Dead
    /\ handle[t] # Dead
    /\ ctrl' = Acquire(ctrl, handle[t])
    /\ handle' = [handle EXCEPT ![s] = handle[t]]
    /\ UNCHANGED <<bufs, images, attempt, notLife>>

\* ~ImagePlane
LifeDrop(s) ==
    /\ handle[s] # Dead
    /\ LET r == Release(bufs, ctrl, handle[s]) IN bufs' = r.bufs /\ ctrl' = r.ctrl
    /\ handle' = [handle EXCEPT ![s] = Dead]
    /\ UNCHANGED <<images, attempt, notLife>>

\* Image<T> i(args...): the three array elements start as default Planes, then
\* planes[k] = argument k
ImageCtor(i, args) ==
    /\ \A k \in DOMAIN args : handle[args[k]] # Dead
    /\ IF ImageCtorExists(Len(args))
       THEN /\ ~images[i].alive
            /\ images' = [images EXCEPT ![i] =
                            [alive |-> TRUE, num_planes |-> Len(args),
                             planes |-> [k \in 1 .. MAX_PLANES |->
                                            IF k <= Len(args) THEN handle[args[k]] ELSE 0]]]
            /\ ctrl' = AcquireAll(ctrl, [k \in DOMAIN args |-> handle[args[k]]])
            /\ attempt' = [n |-> Len(args), result |-> "constructed"]
       ELSE /\ attempt' = [n |-> Len(args), result |-> "no such constructor"]
            /\ UNCHANGED <<images, ctrl, notLife>>
    /\ UNCHANGED <<bufs, handle, notLife>>

\* ~Image
ImageDrop(i) ==
    /\ images[i].alive
    /\ LET r == ReleaseAll(bufs, ctrl, images[i].planes) IN bufs' = r.bufs /\ ctrl' = r.ctrl
    /\ images' = [images EXCEPT ![i] = NoImage]
    /\ UNCHANGED <<handle, attempt, notLife>>

PlaneIdle ==
    /\ mem = <<>>
    /\ brk = HeapStart
    /\ fault = "none"
    /\ pc = "start"
    /\ sizeofT = 1
    /\ planes = [n \in PlaneNames |-> DefaultPlane]
    /\ ext = [ptr |-> NULL, stride |-> 0]
    /\ blt = NoBlt

InitLife ==
    /\ bufs = <<>>
    /\ ctrl = <<>>
    /\ handle = [s \in Slots |-> Dead]
    /\ images = [i \in ImageSlots |-> NoImage]
    /\ attempt = [n |-> 0, result |-> "none"]
    /\ PlaneIdle
    /\ FilterIdle
    /\ CallIdle
    /\ ThreadIdle

\* the argument lists a caller can write: up to MAX_PLANES + 1 Planes it holds
ArgLists == UNION {[1 .. n -> Slots] : n \in 0 .. MAX_PLANES + 1}

NextLife ==
    \/ \E s \in Slots, ok \in BOOLEAN : LifeNew(s, ok)
    \/ \E s \in Slots : LifeWrap(s)
    \/ \E s, t \in Slots : LifeShare(s, t)
    \/ \E s \in Slots : LifeDrop(s)
    \/ \E i \in ImageSlots, args \in ArgLists : ImageCtor(i, args)
    \/ \E i \in ImageSlots : ImageDrop(i)

SpecLife == InitLife /\ [][NextLife]_vars

----------------------------------------------------------------------------
(* Claims about lifetimes and Image, checked under SpecLife *)

\* the Planes, standing alone or stored in an Image, whose handle leads to buffer b
Referring(b) ==
    {<<0, s>> : s \in {t \in Slots : handle[t] > 0 /\ ctrl[handle[t]].ptr = b}}
    \cup {<<i, k>> \in ImageSlots \X (1 .. MAX_PLANES) :
             /\ images[i].alive
             /\ images[i].planes[k] > 0
             /\ ctrl[images[i].planes[k]].ptr = b}

\* C8: a buffer the allocate-and-own constructor obtained has been passed to
\* aligned_free exactly once when no Plane refers to it any more and not at all while
\* one does; a buffer the borrowed-view constructor wrapped is never passed to it.
C8_ReleasedExactlyOnce ==
    \A b \in DOMAIN bufs :
        IF bufs[b].kind = "heap"
        THEN bufs[b].frees = IF Referring(b) = {} THEN 1 ELSE 0
        ELSE bufs[b].frees = 0

C8_Witness ==
    /\ \E b \in DOMAIN bufs : bufs[b].kind = "heap" /\ bufs[b].frees = 1
    /\ \E b \in DOMAIN bufs : bufs[b].kind = "caller" /\ Referring(b) = {} /\ bufs[b].frees = 0
    /\ attempt.result = "constructed" /\ attempt.n = MAX_PLANES

Tried == attempt.result # "none"

\* C7 as claimed: Image construction with 0, 2 or 4 Planes is rejected and with 1 or 3
\* succeeds; no Image reports a plane count other than 1 or 3.
C7_ImageArity ==
    /\ Tried => (attempt.result = "constructed" <=> attempt.n \in {1, 3})
    /\ \A i \in ImageSlots : images[i].alive => images[i].num_planes \in {1, 3}

\* C7 as amended: Image construction with 2 or 4 Planes is rejected (no constructor
\* takes them) and with 0, 1 or 3 succeeds; no Image reports a plane count other than
\* 0, 1 or 3.
C7_ImageArityWithDefault ==
    /\ Tried => (attempt.result = "constructed" <=> attempt.n \in {0, 1, 3})
    /\ \A i \in ImageSlots : images[i].alive => images[i].num_planes \in {0, 1, 3}

C7_Witness ==
    /\ attempt.n = 2
    /\ attempt.result = "no such constructor"
    /\ \E i \in ImageSlots : images[i].alive /\ images[i].num_planes = 0

----------------------------------------------------------------------------
(* ZFilter: the constructor from resize parameters, and init()               *)

\* active_region.width = roi_width > 0 ? roi_width : src_width - roi_width
\* (and the same expression for the height)
ActiveExtent(roi_extent, src_extent) ==
    IF roi_extent > 0 THEN roi_extent ELSE src_extent - roi_extent

\* the temporary bytes the engine's graph asks for: one aligned line per source
\* and destination row
get_tmp_size(src_format, dst_format) == ALIGNMENT * (src_format.height + dst_format.height)

\* ZFilter(params, src_width, src_height, dst_width, dst_height, roi_left, roi_top,
\* roi_width, roi_height): the two formats handed to init()
ZFilterFormats(src_width, src_height, dst_width, dst_height, roi_left, roi_top, roi_width, roi_height) ==
    [src_format |->
        [width |-> src_width, height |-> src_height,
         active_region |-> [left |-> roi_left, top |-> roi_top,
                            width |-> ActiveExtent(roi_width, src_width),
                            height |-> ActiveExtent(roi_height, src_height)]],
     dst_format |-> [width |-> dst_width, height |-> dst_height]]

\* init(): the formats are kept and tmp_buf takes whatever aligned_malloc returned
ZFilterInit(m, b, formats, ok) ==
    LET a == aligned_malloc(m, b, get_tmp_size(formats.src_format, formats.dst_format), ALIGNMENT, ok) IN
    [mem |-> a.mem, brk |-> a.brk,
     zfilter |-> [alive |-> TRUE, src_format |-> formats.src_format,
                  dst_format |-> formats.dst_format, tmp_buf |-> a.ptr]]

NoFilter ==
    [alive |-> FALSE,
     src_format |-> [width |-> 0, height |-> 0,
                     active_region |-> [left |-> 0, top |-> 0, width |-> 0, height |-> 0]],
     dst_format |-> [width |-> 0, height |-> 0], tmp_buf |-> NULL]

NoRoi == [left |-> 0, top |-> 0, width |-> 0, height |-> 0]

Dims == 1 .. MaxDim
RoiOrigins == 0 .. MaxRoi
RoiExtents == (0 - MaxRoi) .. (MaxRoi + 1)

\* ZFilter zfilter(params, sw, sh, dw, dh, left, top, width, height)
Construct(sw, sh, dw, dh, left, top, width, height, ok) ==
    /\ zfilter = NoFilter
    /\ LET r == ZFilterInit(mem, brk, ZFilterFormats(sw, sh, dw, dh, left, top, width, height), ok) IN
        /\ mem' = r.mem
        /\ brk' = r.brk
        /\ zfilter' = r.zfilter
    /\ roi' = [left |-> left, top |-> top, width |-> width, height |-> height]
    /\ UNCHANGED notFilter

\* ~ZFilter: the unique_ptr frees tmp_buf
Destroy ==
    /\ zfilter.alive
    /\ mem' = IF zfilter.tmp_buf = NULL THEN mem
              ELSE [mem EXCEPT ![zfilter.tmp_buf.blk].live = FALSE]
    /\ zfilter' = [zfilter EXCEPT !.alive = FALSE]
    /\ UNCHANGED <<brk, roi, notFilter>>

InitFilter ==
    /\ zfilter = NoFilter
    /\ roi = NoRoi
    /\ PlaneIdle
    /\ LifeIdle
    /\ CallIdle
    /\ ThreadIdle

NextFilter ==
    \/ \E sw \in Dims, sh \in Dims, dw \in Dims, dh \in Dims,
          left \in RoiOrigins, top \in RoiOrigins, width \in RoiExtents, height \in RoiExtents,
          ok \in BOOLEAN :
          Construct(sw, sh, dw, dh, left, top, width, height, ok)
    \/ Destroy

SpecFilter == InitFilter /\ [][NextFilter]_vars

\* C9: in the filter built from resize parameters, a roi_width <= 0 gives an active
\* region that runs from roi_left exactly to the source's far edge, a roi_width > 0 is
\* the active width itself; the same for roi_height with roi_top and the source height.
C9_RoiExtendsToFarEdge ==
    zfilter.alive =>
        LET f == zfilter.src_format IN
        /\ roi.width > 0 => f.active_region.width = roi.width
        /\ roi.width <= 0 => f.active_region.left + f.active_region.width = f.width
        /\ roi.height > 0 => f.active_region.height = roi.height
        /\ roi.height <= 0 => f.active_region.top + f.active_region.height = f.height

----------------------------------------------------------------------------
(* The tensors a host passes to ZFilterPy::__call__ (py::buffer_info)         *)

RECURSIVE Product(_)
Product(seq) == IF seq = <<>> THEN 1 ELSE Head(seq) * Product(Tail(seq))

RECURSIVE Sum(_)
Sum(seq) == IF seq = <<>> THEN 0 ELSE Head(seq) + Sum(Tail(seq))

Layouts == {"packed", "transposed", "rowpad", "wide", "reversed", "flipped", "broadcast"}

\* byte strides of the last two axes of an H x W view, and the bytes one such plane spans
InnerStrides(layout, H, W, T) ==
    CASE layout = "packed"     -> [h |-> W * T, w |-> T, plane |-> H * W * T]
      [] layout = "transposed" -> [h |-> T, w |-> H * T, plane |-> H * W * T]
      [] layout = "rowpad"     -> [h |-> (W + 1) * T, w |-> T, plane |-> H * (W + 1) * T]
      [] layout = "wide"       -> [h |-> 2 * W * T, w |-> 2 * T, plane |-> 2 * H * W * T]
      [] layout = "reversed"   -> [h |-> W * T, w |-> 0 - T, plane |-> H * W * T]
      [] layout = "flipped"    -> [h |-> 0 - W * T, w |-> T, plane |-> H * W * T]
      [] layout = "broadcast"  -> [h |-> T, w |-> 0, plane |-> H * T]

TensorStrides(shape, T, layout) ==
    LET n == Len(shape) IN
    IF n < 2 THEN [k \in 1 .. n |-> T]
    ELSE LET in == InnerStrides(layout, shape[n - 1], shape[n], T) IN
         [k \in 1 .. n |->
            IF k = n THEN in.w
            ELSE IF k = n - 1 THEN in.h
            ELSE in.plane * Product(SubSeq(shape, k + 1, n - 2))]

\* the bytes the elements of a tensor span, and the offset of element (0, ..., 0) in them
TensorExtent(shape, strides, T) ==
    Sum([k \in 1 .. Len(shape) |-> Abs(strides[k]) * (shape[k] - 1)]) + T
TensorOrigin(shape, strides) ==
    Sum([k \in 1 .. Len(shape) |-> IF strides[k] < 0 THEN (0 - strides[k]) * (shape[k] - 1) ELSE 0])

Tensor(shape, T, layout, blk) ==
    LET st == TensorStrides(shape, T, layout) IN
    [ndim |-> Len(shape), shape |-> shape, strides |-> st, itemsize |-> T, layout |-> layout,
     ptr |-> Ptr(blk, TensorOrigin(shape, st))]

NoTensor == [ndim |-> 0, shape |-> <<>>, strides |-> <<>>, itemsize |-> 0, layout |-> "none", ptr |-> NULL]

\* src_shape[i], src_strides[i] for an index inside the rank
ShapeAt(t, i) == t.shape[i + 1]
StrideAt(t, i) == t.strides[i + 1]

\* the entries of src_shape the first lines of __call__ read, whatever the rank
ShapeIndicesRead(ndim) == {ndim - 1, ndim - 2} \cup (IF ndim > 2 THEN {ndim - 3} ELSE {})

Channels(t) == IF t.ndim > 2 THEN ShapeAt(t, t.ndim - 3) ELSE 1
StrideC(t) == IF t.ndim > 2 THEN StrideAt(t, t.ndim - 3) ELSE 0
StrideH(t) == StrideAt(t, t.ndim - 2)
StrideW(t) == StrideAt(t, t.ndim - 1)

\* the checks of __call__, in their order, on a shape of rank >= 2; for a lower
\* rank the first check throws whatever the entries read outside the shape held
Validate(shape, src_format) ==
    LET ndim == Len(shape)
        channels == IF ndim > 2 THEN shape[ndim - 2] ELSE 1
    IN  IF ndim < 2 \/ ndim > 3 THEN "InvalidRank"
        ELSE IF channels # 1 /\ channels # 3 THEN "InvalidChannelCount"
        ELSE IF shape[ndim] # src_format.width \/ shape[ndim - 1] # src_format.height
             THEN "ShapeMismatch"
        ELSE "none"

----------------------------------------------------------------------------
(* ZFilterPy::__call__<T>: the copies into and out of the scratch Planes      *)

\* a scratch row that is one row per channel, not height rows per channel
ScratchRow_NoHeight(c, h, height) == c + h

\* the row of the scratch Plane that holds row h of channel c
ScratchRow(c, h, height) == c * height + h

\* for (; origin_ptr < origin_upper; origin_ptr += origin_step, target_ptr += target_step)
\*     *(T *)target_ptr = *(const T *)origin_ptr;
RECURSIVE ElementLoop(_, _, _, _, _, _, _)
ElementLoop(m, origin_ptr, origin_upper, target_ptr, origin_step, target_step, T) ==
    IF ~(origin_ptr.off < origin_upper.off) THEN [mem |-> m, fault |-> "none"]
    ELSE LET c == Memcpy(m, target_ptr, origin_ptr, T) IN
         IF c.fault # "none" THEN c
         ELSE ElementLoop(c.mem, PtrAdd(origin_ptr, origin_step), origin_upper,
                          PtrAdd(target_ptr, target_step), origin_step, target_step, T)

\* import, src_stride_w != sizeof(T): rows (c, h) from the i-th on, element by element
RECURSIVE ImportStrided(_, _, _, _, _, _, _, _)
ImportStrided(m, t, img, T, channels, src_height, src_width, i) ==
    IF i >= channels * src_height THEN [mem |-> m, fault |-> "none"]
    ELSE LET c == i \div src_height
             h == i % src_height
             origin_ptr == PtrAdd(t.ptr, c * StrideC(t) + h * StrideH(t))
             target_ptr == PtrAdd(img.data, ScratchRow(c, h, src_height) * img.stride)
             r == ElementLoop(m, origin_ptr, PtrAdd(origin_ptr, src_width * StrideW(t)),
                              target_ptr, StrideW(t), T, T)
         IN  IF r.fault # "none" THEN r
             ELSE ImportStrided(r.mem, t, img, T, channels, src_height, src_width, i + 1)

\* import, src_stride_w == sizeof(T): one bitblt per channel from the c-th on
RECURSIVE ImportPacked(_, _, _, _, _, _, _, _)
ImportPacked(m, t, img, T, channels, src_height, src_width, c) ==
    IF c >= channels THEN [mem |-> m, fault |-> "none"]
    ELSE LET origin_ptr == PtrAdd(t.ptr, c * StrideC(t))
             target_ptr == PtrAdd(img.data, ScratchRow(c, 0, src_height) * img.stride)
             r == bitblt(m, target_ptr, img.stride, origin_ptr, StrideH(t), src_width * T, src_height)
         IN  IF r.fault # "none" THEN r
             ELSE ImportPacked(r.mem, t, img, T, channels, src_height, src_width, c + 1)

ImportCopy(m, t, img, T, channels, src_height, src_width) ==
    IF StrideW(t) # T
    THEN ImportStrided(m, t, img, T, channels, src_height, src_width, 0)
    ELSE ImportPacked(m, t, img, T, channels, src_height, src_width, 0)

\* export, dst_stride_w != sizeof(T)
RECURSIVE ExportStrided(_, _, _, _, _, _, _, _)
ExportStrided(m, t, img, T, channels, dst_height, dst_width, i) ==
    IF i >= channels * dst_height THEN [mem |-> m, fault |-> "none"]
    ELSE LET c == i \div dst_height
             h == i % dst_height
             origin_ptr == PtrAdd(img.data, ScratchRow(c, h, dst_height) * img.stride)
             target_ptr == PtrAdd(t.ptr, c * StrideC(t) + h * StrideH(t))
             r == ElementLoop(m, origin_ptr, PtrAdd(origin_ptr, dst_width * T),
                              target_ptr, T, StrideW(t), T)
         IN  IF r.fault # "none" THEN r
             ELSE ExportStrided(r.mem, t, img, T, channels, dst_height, dst_width, i + 1)

\* export, dst_stride_w == sizeof(T)
RECURSIVE ExportPacked(_, _, _, _, _, _, _, _)
ExportPacked(m, t, img, T, channels, dst_height, dst_width, c) ==
    IF c >= channels THEN [mem |-> m, fault |-> "none"]
    ELSE LET origin_ptr == PtrAdd(img.data, ScratchRow(c, 0, dst_height) * img.stride)
             target_ptr == PtrAdd(t.ptr, c * StrideC(t))
             r == bitblt(m, target_ptr, StrideH(t), origin_ptr, img.stride, dst_width * T, dst_height)
         IN  IF r.fault # "none" THEN r
             ELSE ExportPacked(r.mem, t, img, T, channels, dst_height, dst_width, c + 1)

ExportCopy(m, t, img, T, channels, dst_height, dst_width) ==
    IF StrideW(t) # T
    THEN ExportStrided(m, t, img, T, channels, dst_height, dst_width, 0)
    ELSE ExportPacked(m, t, img, T, channels, dst_height, dst_width, 0)

----------------------------------------------------------------------------
(* ZFilter::operator() and the engine behind it                               *)

\* three planes one row apart, not height rows apart
Descriptors_RowApart(img, channels, height) ==
    IF channels = 1 THEN <<[data |-> img.data, stride |-> img.stride]>>
    ELSE [p \in 1 .. MAX_PLANES |->
            [data |-> PtrAdd(img.data, (p - 1) * img.stride), stride |-> img.stride]]

\* the (pointer, stride) pairs __call__ hands over for one side: the scratch Plane
\* itself for one channel, three blocks of height rows of it for three
Descriptors(img, channels, height) ==
    IF channels = 1 THEN <<[data |-> img.data, stride |-> img.stride]>>
    ELSE [p \in 1 .. MAX_PLANES |->
            [data |-> PtrAdd(img.data, (p - 1) * height * img.stride), stride |-> img.stride]]

\* graph.process(buf_src, buf_dst, tmp_buf.get()) as the engine sees it
ProcessCall(src_img, dst_img, channels, src_height, dst_height, tmp) ==
    [src |-> Descriptors(src_img, channels, src_height),
     dst |-> Descriptors(dst_img, channels, dst_height),
     tmp |-> tmp]

Opaque == 0 - 3             \* a byte of engine output that is no copy of its input

RECURSIVE Memset(_, _, _, _)
Memset(m, dst, n, v) ==
    IF n = 0 THEN [mem |-> m, fault |-> "none"]
    ELSE IF dst.blk = 0 THEN [mem |-> m, fault |-> "null"]
    ELSE IF ~InBounds(m, dst, n) THEN [mem |-> m, fault |-> "oob"]
    ELSE [mem |-> [m EXCEPT ![dst.blk].bytes =
                      [o \in DOMAIN @ |-> IF o >= dst.off /\ o < dst.off + n THEN v ELSE @[o]]],
          fault |-> "none"]

\* The engine stub: between equal formats every source plane is copied unchanged to
\* its destination plane, row by row at the strides given; between different formats
\* the destination rows receive output that is no copy of the input.
RECURSIVE EngineStub(_, _, _, _, _, _)
EngineStub(m, pcall, src_format, dst_format, T, i) ==
    IF i >= Len(pcall.dst) * dst_format.height THEN [mem |-> m, fault |-> "none"]
    ELSE LET p == (i \div dst_format.height) + 1
             row == i % dst_format.height
             to == PtrAdd(pcall.dst[p].data, row * pcall.dst[p].stride)
             r == IF src_format.width = dst_format.width /\ src_format.height = dst_format.height
                  THEN Memcpy(m, to, PtrAdd(pcall.src[p].data, row * pcall.src[p].stride),
                              dst_format.width * T)
                  ELSE Memset(m, to, dst_format.width * T, Opaque)
         IN  IF r.fault # "none" THEN r
             ELSE EngineStub(r.mem, pcall, src_format, dst_format, T, i + 1)

----------------------------------------------------------------------------
(* ZFilterPy::__call__<T>(src_arr), step by step                              *)

NoCall == [pc |-> "idle", error |-> "none", shape_reads |-> {}, allocs |-> 0, copies |-> 0]
NoScratch == [src_image |-> DefaultPlane, dst_image |-> DefaultPlane]

MaxRank == 4
Ranks == 0 .. MaxRank
ShapeValues == 1 .. MAX_PLANES
Shapes == UNION {[1 .. n -> ShapeValues] : n \in Ranks}

\* the strides are first read after the checks: a tensor the checks turn away is
\* drawn packed
LayoutsOf(shape, src_format) ==
    IF Validate(shape, src_format) = "none" THEN Layouts ELSE {"packed"}

Trap(f) ==
    /\ fault' = f
    /\ call' = [call EXCEPT !.pc = "trap"]

\* entry: the three reads of src_shape, then the three checks and their throws
Enter(T, shape, layout, trapped) ==
    /\ call.pc = "idle"
    /\ layout \in LayoutsOf(shape, zfilter.src_format)
    /\ LET blk == Len(mem) + 1
           t == Tensor(shape, T, layout, blk)
           reads == ShapeIndicesRead(t.ndim)
           outside == \E i \in reads : i < 0 \/ i >= t.ndim
           err == Validate(shape, zfilter.src_format)
       IN  /\ trapped => outside
           /\ mem' = Append(mem, CallerBlock(blk, TensorExtent(shape, t.strides, T), TRUE))
           /\ src_arr' = t
           /\ sizeofT' = T
           /\ fault' = IF outside THEN "oob" ELSE "none"
           /\ call' = [call EXCEPT !.shape_reads = reads,
                                   !.error = IF trapped THEN "none" ELSE err,
                                   !.pc = IF trapped THEN "trap"
                                          ELSE IF err # "none" THEN "rejected" ELSE "validated"]
    /\ UNCHANGED <<brk, zfilter, dst_arr, scratch, engine, notCall>>

\* a host calls the filter with a tensor of some element type, shape and layout
Call ==
    /\ call.pc = "idle"
    /\ \E T \in ElemSizes, shape \in Shapes :
          \E layout \in LayoutsOf(shape, zfilter.src_format), trapped \in BOOLEAN :
              Enter(T, shape, layout, trapped)

\* the two scratch Planes and the fresh packed result array
Allocate(ok_src, ok_dst) ==
    /\ call.pc = "validated"
    /\ LET channels == Channels(src_arr)
           s == PlaneNew(mem, brk, zfilter.src_format.width, zfilter.src_format.height * channels,
                         sizeofT, ok_src)
           d == PlaneNew(s.mem, s.brk, zfilter.dst_format.width, zfilter.dst_format.height * channels,
                         sizeofT, ok_dst)
           blk == Len(d.mem) + 1
           dst_shape == [src_arr.shape EXCEPT ![src_arr.ndim] = zfilter.dst_format.width,
                                              ![src_arr.ndim - 1] = zfilter.dst_format.height]
           t == Tensor(dst_shape, sizeofT, "packed", blk)
       IN  /\ ok_src \in AllocOutcomes(s.plane.stride * s.plane.height)
           /\ ok_dst \in AllocOutcomes(d.plane.stride * d.plane.height)
           /\ mem' = Append(d.mem, CallerBlock(blk, TensorExtent(dst_shape, t.strides, sizeofT), FALSE))
           /\ brk' = d.brk
           /\ scratch' = [src_image |-> s.plane, dst_image |-> d.plane]
           /\ dst_arr' = t
           /\ call' = [call EXCEPT !.pc = "allocated", !.allocs = @ + 2]
    /\ UNCHANGED <<fault, sizeofT, zfilter, src_arr, engine, notCall>>

\* copy src data to aligned memory
ImportStep ==
    /\ call.pc = "allocated"
    /\ LET r == ImportCopy(mem, src_arr, scratch.src_image, sizeofT, Channels(src_arr),
                           zfilter.src_format.height, zfilter.src_format.width)
       IN  /\ mem' = r.mem
           /\ IF r.fault # "none" THEN Trap(r.fault)
              ELSE /\ call' = [call EXCEPT !.pc = "imported", !.copies = @ + 1]
                   /\ fault' = fault
    /\ UNCHANGED <<brk, sizeofT, zfilter, src_arr, dst_arr, scratch, engine, notCall>>

\* process: one call of the filter with one or three planes a side
Process ==
    /\ call.pc = "imported"
    /\ LET pcall == ProcessCall(scratch.src_image, scratch.dst_image, Channels(src_arr),
                                zfilter.src_format.height, zfilter.dst_format.height, zfilter.tmp_buf)
           r == EngineStub(mem, pcall, zfilter.src_format, zfilter.dst_format, sizeofT, 0)
       IN  /\ engine' = Append(engine, pcall)
           /\ mem' = r.mem
           /\ IF r.fault # "none" THEN Trap(r.fault)
              ELSE /\ call' = [call EXCEPT !.pc = "processed"]
                   /\ fault' = fault
    /\ UNCHANGED <<brk, sizeofT, zfilter, src_arr, dst_arr, scratch, notCall>>

\* copy aligned memory to dst data
ExportStep ==
    /\ call.pc = "processed"
    /\ LET r == ExportCopy(mem, dst_arr, scratch.dst_image, sizeofT, Channels(src_arr),
                           zfilter.dst_format.height, zfilter.dst_format.width)
       IN  /\ mem' = r.mem
           /\ IF r.fault # "none" THEN Trap(r.fault)
              ELSE /\ call' = [call EXCEPT !.pc = "exported", !.copies = @ + 1]
                   /\ fault' = fault
    /\ UNCHANGED <<brk, sizeofT, zfilter, src_arr, dst_arr, scratch, engine, notCall>>

\* return dst_arr: the scratch Planes go out of scope, dst_image first
Return ==
    /\ call.pc = "exported"
    /\ mem' = [b \in DOMAIN mem |->
                IF b \in {scratch.src_image.data.blk, scratch.dst_image.data.blk}
                THEN [mem[b] EXCEPT !.live = FALSE] ELSE mem[b]]
    /\ call' = [call EXCEPT !.pc = "returned"]
    /\ UNCHANGED <<brk, fault, sizeofT, zfilter, src_arr, dst_arr, scratch, engine, notCall>>

\* a filter built by the resize constructor with the whole source as its region
InitCall ==
    /\ \E sw \in Dims, sh \in Dims, dw \in Dims, dh \in Dims :
          LET r == ZFilterInit(<<>>, HeapStart, ZFilterFormats(sw, sh, dw, dh, 0, 0, 0, 0), TRUE) IN
            /\ mem = r.mem
            /\ brk = r.brk
            /\ zfilter = r.zfilter
    /\ fault = "none"
    /\ sizeofT = 1
    /\ call = NoCall
    /\ src_arr = NoTensor
    /\ dst_arr = NoTensor
    /\ scratch = NoScratch
    /\ engine = <<>>
    /\ pc = "start"
    /\ planes = [n \in PlaneNames |-> DefaultPlane]
    /\ ext = [ptr |-> NULL, stride |-> 0]
    /\ blt = NoBlt
    /\ roi = NoRoi
    /\ LifeIdle
    /\ ThreadIdle

NextCall ==
    \/ Call
    \/ \E ok_src \in BOOLEAN, ok_dst \in BOOLEAN : Allocate(ok_src, ok_dst)
    \/ ImportStep
    \/ Process
    \/ ExportStep
    \/ Return

SpecCall == InitCall /\ [][NextCall]_vars

----------------------------------------------------------------------------
(* Claims about the conversion call                                           *)

InsideRank(t) == 0 .. (t.ndim - 1)

\* C1: a call whose rank is not 2 or 3 is rejected with InvalidRank, else one whose
\* channel count is not 1 or 3 with InvalidChannelCount, else one whose trailing two
\* dimensions differ from the filter's source width and height with ShapeMismatch; and
\* a rejected call has read no shape entry outside the tensor's rank, called no
\* allocator, made no copy and no engine call.
C1_RejectedBeforeAnyWork ==
    call.pc # "idle" =>
        /\ src_arr.ndim \notin {2, 3} => call.pc = "rejected" /\ call.error = "InvalidRank"
        /\ (src_arr.ndim \in {2, 3} /\ Channels(src_arr) \notin {1, 3})
              => call.pc = "rejected" /\ call.error = "InvalidChannelCount"
        /\ (/\ src_arr.ndim \in {2, 3}
            /\ Channels(src_arr) \in {1, 3}
            /\ \/ ShapeAt(src_arr, src_arr.ndim - 1) # zfilter.src_format.width
               \/ ShapeAt(src_arr, src_arr.ndim - 2) # zfilter.src_format.height)
              => call.pc = "rejected" /\ call.error = "ShapeMismatch"
        /\ call.pc = "rejected" =>
              /\ call.shape_reads \subseteq InsideRank(src_arr)
              /\ call.allocs = 0
              /\ call.copies = 0
              /\ engine = <<>>

\* the address of element (c, h, w) of a tensor of rank 2 or 3
ElemPtr(t, c, h, w) == PtrAdd(t.ptr, c * StrideC(t) + h * StrideH(t) + w * StrideW(t))

SameElement(m, a, b, c, h, w) ==
    \A k \in 0 .. (a.itemsize - 1) :
        /\ Read(m, PtrAdd(ElemPtr(a, c, h, w), k)) = Read(m, PtrAdd(ElemPtr(b, c, h, w), k))
        /\ Read(m, PtrAdd(ElemPtr(a, c, h, w), k)) # Indeterminate

IdentityShaped ==
    /\ zfilter.src_format.width = zfilter.dst_format.width
    /\ zfilter.src_format.height = zfilter.dst_format.height

\* C6: with an engine that copies every source plane unchanged and a filter whose two
\* formats are equal, the returned tensor has the input's shape and its element at
\* every (c, h, w) is the input's element there, for packed tensors of one or three
\* channels and for transposed tensors, whose innermost stride is not the element size.
C6_IdentityRoundTrip ==
    (call.pc = "returned" /\ IdentityShaped /\ src_arr.layout \in {"packed", "transposed"}) =>
        /\ dst_arr.shape = src_arr.shape
        /\ \A c \in 0 .. (Channels(src_arr) - 1),
              h \in 0 .. (zfilter.src_format.height - 1),
              w \in 0 .. (zfilter.src_format.width - 1) :
              SameElement(mem, dst_arr, src_arr, c, h, w)

C6_Witness ==
    /\ call.pc = "returned"
    /\ IdentityShaped
    /\ src_arr.layout = "transposed"
    /\ src_arr.ndim = 2
    /\ StrideW(src_arr) # sizeofT
    /\ zfilter.src_format.width > 1
    /\ zfilter.src_format.height > 1
    /\ C6_IdentityRoundTrip

----------------------------------------------------------------------------
(* Threads calling ZFilter::operator(): the temporary buffer of an instance   *)

MaxThreads == 2     \* threads of the calling program
MaxFilters == 2     \* ZFilter instances it has built

ThreadIds == 1 .. MaxThreads
FilterIds == 1 .. MaxFilters

\* how the program's threads use the instances: every call under one lock of the
\* program's, each thread calling the instance of its own number only, or any thread
\* calling any instance with nothing in between
Disciplines == {"serialized", "own instance", "shared"}

\* one buffer of the engine's, the same for every instance
tmp_buf_get_Static(f) == Ptr(1, 0)

\* this->tmp_buf.get(), the last argument of graph.process
tmp_buf_get(f) == f.tmp_buf

\* the instances built one after the other, each by init()
RECURSIVE BuildFilters(_, _, _, _)
BuildFilters(m, b, oks, built) ==
    IF Len(built) = Len(oks) THEN [mem |-> m, brk |-> b, filters |-> built]
    ELSE LET r == ZFilterInit(m, b, ZFilterFormats(MaxDim, MaxDim, MaxDim, MaxDim, 0, 0, 0, 0),
                              oks[Len(built) + 1])
         IN  BuildFilters(r.mem, r.brk, oks, Append(built, r.zfilter))

IdleThread == [pc |-> "idle", inst |-> 0, planes |-> 0, tmp |-> NULL]

\* the program's own lock around a call, where it serializes its calls
Lock(t) ==
    /\ guard.mode = "serialized"
    /\ threads[t].pc = "idle"
    /\ guard.holder = 0
    /\ guard' = [guard EXCEPT !.holder = t]
    /\ threads' = [threads EXCEPT ![t].pc = "locked"]
    /\ UNCHANGED <<filters, notThread>>

\* thread t calls operator() of instance i with one plane or with MAX_PLANES planes a
\* side: the descriptors are filled in and graph.process is entered with tmp_buf.get()
Invoke(t, i, n) ==
    /\ threads[t].pc = IF guard.mode = "serialized" THEN "locked" ELSE "idle"
    /\ guard.mode = "own instance" => i = t
    /\ threads' = [threads EXCEPT ![t] = [pc |-> "process", inst |-> i, planes |-> n,
                                          tmp |-> tmp_buf_get(filters[i])]]
    /\ UNCHANGED <<filters, guard, notThread>>

\* graph.process returns, and operator() with it
Finish(t) ==
    /\ threads[t].pc = "process"
    /\ threads' = [threads EXCEPT ![t] =
                      [IdleThread EXCEPT !.pc = IF guard.mode = "serialized" THEN "returned" ELSE "idle"]]
    /\ UNCHANGED <<filters, guard, notThread>>

Unlock(t) ==
    /\ threads[t].pc = "returned"
    /\ guard.holder = t
    /\ guard' = [guard EXCEPT !.holder = 0]
    /\ threads' = [threads EXCEPT ![t].pc = "idle"]
    /\ UNCHANGED <<filters, notThread>>

InitThreads ==
    /\ \E oks \in [FilterIds -> BOOLEAN] :
          LET r == BuildFilters(<<>>, HeapStart, oks, <<>>) IN
            /\ mem = r.mem
            /\ brk = r.brk
            /\ filters = r.filters
    /\ threads = [t \in ThreadIds |-> IdleThread]
    /\ \E mode \in Disciplines : guard = [mode |-> mode, holder |-> 0]
    /\ fault = "none"
    /\ pc = "start"
    /\ sizeofT = 1
    /\ planes = [n \in PlaneNames |-> DefaultPlane]
    /\ ext = [ptr |-> NULL, stride |-> 0]
    /\ blt = NoBlt
    /\ LifeIdle
    /\ FilterIdle
    /\ CallIdle

NextThreads ==
    \/ \E t \in ThreadIds : Lock(t)
    \/ \E t \in ThreadIds, i \in FilterIds, n \in {1, MAX_PLANES} : Invoke(t, i, n)
    \/ \E t \in ThreadIds : Finish(t)
    \/ \E t \in ThreadIds : Unlock(t)

SpecThreads == InitThreads /\ [][NextThreads]_vars

InFlight(t) == threads[t].pc = "process"

HeapBlocks == {b \in DOMAIN mem : mem[b].owner = "heap"}

\* C11: an instance's temporary buffer is the one init() allocated, no other is ever
\* allocated, and every process call in flight on the instance was given that buffer;
\* where the calls are serialized, or every thread calls its own instance, no two
\* process calls in flight use the same temporary buffer. (Where two threads call one
\* instance with nothing in between, two calls in flight on one buffer are reached:
\* C11_Witness.)
C11_TmpBufPerInstance ==
    /\ \A t \in ThreadIds : InFlight(t) => threads[t].tmp = filters[threads[t].inst].tmp_buf
    /\ \A i \in FilterIds : filters[i].tmp_buf # NULL =>
          /\ filters[i].tmp_buf.blk \in HeapBlocks
          /\ mem[filters[i].tmp_buf.blk].live
          /\ \A j \in FilterIds : j # i => filters[j].tmp_buf # filters[i].tmp_buf
    /\ Cardinality(HeapBlocks) = Cardinality({i \in FilterIds : filters[i].tmp_buf # NULL})
    /\ guard.mode \in {"serialized", "own instance"} =>
          \A t \in ThreadIds, u \in ThreadIds :
              (t # u /\ InFlight(t) /\ InFlight(u) /\ threads[t].tmp # NULL)
                  => threads[t].tmp # threads[u].tmp

C11_Witness ==
    /\ guard.mode = "shared"
    /\ \E t \in ThreadIds, u \in ThreadIds :
          /\ t # u
          /\ InFlight(t) /\ InFlight(u)
          /\ threads[t].inst = threads[u].inst
          /\ threads[t].tmp # NULL
          /\ threads[t].tmp = threads[u].tmp
          /\ threads[t].tmp = filters[threads[t].inst].tmp_buf

----------------------------------------------------------------------------
(* Claims about the placement of the tensor's elements in the scratch Planes  *)

\* byte k of the element in row `row`, column w of a Plane of elements of T bytes
PlaneByte(m, img, row, w, T, k) == Read(m, PtrAdd(img.data, row * img.stride + w * T + k))

\* element (c, h, w) of tensor t is, byte for byte, the element of the Plane at row
\* c * height + h, column w
PlacedAt(m, t, img, height, c, h, w) ==
    /\ img.data # NULL
    /\ \A k \in 0 .. (t.itemsize - 1) :
          /\ PlaneByte(m, img, c * height + h, w, t.itemsize, k) = Read(m, PtrAdd(ElemPtr(t, c, h, w), k))
          /\ PlaneByte(m, img, c * height + h, w, t.itemsize, k) # Indeterminate

Imported == call.pc \in {"imported", "processed", "exported"}

\* C12: for every accepted tensor, whatever its strides (innermost stride the element
\* size, larger, zero or negative), after the import the source scratch Plane holds
\* element (c, h, w) at row c * height + h, column w; on a tensor both copies apply to
\* (innermost stride the element size) the per-channel blit and the element loop leave
\* the same memory; and after the export the returned tensor's element (c, h, w) is the
\* destination scratch Plane's at row c * height + h, column w.
C12_ScratchPlacement ==
    /\ Imported =>
          \A c \in 0 .. (Channels(src_arr) - 1),
             h \in 0 .. (zfilter.src_format.height - 1),
             w \in 0 .. (zfilter.src_format.width - 1) :
             PlacedAt(mem, src_arr, scratch.src_image, zfilter.src_format.height, c, h, w)
    /\ (call.pc = "allocated" /\ StrideW(src_arr) = sizeofT) =>
          ImportStrided(mem, src_arr, scratch.src_image, sizeofT, Channels(src_arr),
                        zfilter.src_format.height, zfilter.src_format.width, 0)
          = ImportPacked(mem, src_arr, scratch.src_image, sizeofT, Channels(src_arr),
                         zfilter.src_format.height, zfilter.src_format.width, 0)
    /\ call.pc = "exported" =>
          \A c \in 0 .. (Channels(src_arr) - 1),
             h \in 0 .. (zfilter.dst_format.height - 1),
             w \in 0 .. (zfilter.dst_format.width - 1) :
             PlacedAt(mem, dst_arr, scratch.dst_image, zfilter.dst_format.height, c, h, w)

----------------------------------------------------------------------------
(* Claims about the engine call of a conversion                               *)

Accepted == call.pc \notin {"idle", "rejected"} /\ call.error = "none" /\ src_arr.ndim \in {2, 3}

\* descriptor p (from 0) of one side is the side's scratch Plane moved on by p blocks of
\* H rows, with the Plane's stride
DescribesBlock(d, p, img, H) ==
    /\ d.data = PtrAdd(img.data, p * H * img.stride)
    /\ d.stride = img.stride

DescribesSide(ds, img, H, channels) ==
    /\ Len(ds) = channels
    /\ Len(ds) \in {1, MAX_PLANES}
    /\ \A p \in 0 .. (channels - 1) : DescribesBlock(ds[p + 1], p, img, H)

C13_EngineCalls ==
    /\ Len(engine) <= 1
    /\ call.pc \in {"idle", "rejected", "validated", "allocated", "imported"} => engine = <<>>
    /\ call.pc \in {"processed", "exported", "returned"} => Len(engine) = 1
    /\ call.pc = "processed" => call.copies = 1
    /\ \A e \in DOMAIN engine :
          /\ Accepted
          /\ DescribesSide(engine[e].src, scratch.src_image, zfilter.src_format.height, Channels(src_arr))
          /\ DescribesSide(engine[e].dst, scratch.dst_image, zfilter.dst_format.height, Channels(src_arr))

\* the engine is called in the step that follows the import copy, with the export copy
\* still to come
C13_EngineStep ==
    engine' # engine =>
        /\ call.pc = "imported"
        /\ call.copies = 1
        /\ call'.copies = 1
        /\ Len(engine') = Len(engine) + 1

\* C13: an accepted call makes one engine process call, after the import copy and before
\* the export copy, never a second; the call passes one descriptor a side for one
\* channel (the scratch Plane's pointer and stride) and three a side for three channels
\* (pointers 0, H * stride and 2 * H * stride bytes into the side's scratch buffer, all
\* with its stride, H the source height on the source side and the destination height
\* on the destination side), never two.
C13_OneEngineCall == []C13_EngineCalls /\ [][C13_EngineStep]_vars

C13_Witness ==
    /\ call.pc = "returned"
    /\ Channels(src_arr) = MAX_PLANES
    /\ Len(engine) = 1
    /\ Len(engine[1].src) = MAX_PLANES
    /\ zfilter.src_format.height > zfilter.dst_format.height
    /\ zfilter.dst_format.height > 0
    /\ engine[1].src[MAX_PLANES].data.off > engine[1].dst[MAX_PLANES].data.off
    /\ engine[1].dst[MAX_PLANES].data.blk = scratch.dst_image.data.blk
    /\ scratch.dst_image.data # NULL

====
